---- MODULE Spec2Model ----
(***************************************************************************)
(* Model of src/proxy.py: the request translator (process_request_body,    *)
(* clean_messages and their helpers) and the handlers of the server        *)
(* (ProxyHandler.do_POST, ProxyHandler.do_GET).                            *)
(*                                                                         *)
(* JSON values are tagged records, so that the isinstance tests of the     *)
(* code can be translated:                                                 *)
(*   str   [k |-> "str",  s |-> "..."]     None  [k |-> "null"]            *)
(*   int   [k |-> "num",  n |-> 1]                                         *)
(*   list  [k |-> "list", l |-> <<...>>]                                   *)
(*   dict  [k |-> "dict", f |-> [key |-> value]]                           *)
(* A dict is a function from its keys: the insertion order of a Python     *)
(* dict is not modelled (dict equality does not depend on it).             *)
(***************************************************************************)
EXTENDS Integers, Sequences, FiniteSets, TLC

VARIABLES method, path, headers, body, pc, data, i, pending_tool_ids,
          cleaned, origin, request, backend, response

vars == <<method, path, headers, body, pc, data, i, pending_tool_ids,
          cleaned, origin, request, backend, response>>

----------------------------------------------------------------------------
(* JSON values and the Python operations the code applies to them *)

S(s) == [k |-> "str", s |-> s]
N(n) == [k |-> "num", n |-> n]
L(l) == [k |-> "list", l |-> l]
D(f) == [k |-> "dict", f |-> f]
Null == [k |-> "null"]
EmptyMap == [key \in {} |-> Null]

IsDict(v) == v.k = "dict"
IsList(v) == v.k = "list"
IsStr(v) == v.k = "str"

\* key in d
Has(d, key) == key \in DOMAIN d.f
\* d.get(key, default)
Get(d, key, default) == IF key \in DOMAIN d.f THEN d.f[key] ELSE default
\* d[key] = val
Put(d, key, val) == D((key :> val) @@ d.f)
\* del d[key]
Del(d, key) == D([x \in DOMAIN d.f \ {key} |-> d.f[x]])

\* bool(v)
Truthy(v) ==
    CASE v.k = "str" -> v.s # ""
      [] v.k = "num" -> v.n # 0
      [] v.k = "list" -> Len(v.l) > 0
      [] v.k = "dict" -> DOMAIN v.f # {}
      [] OTHER -> FALSE

\* sep.join(parts), parts a sequence of strings
RECURSIVE Join(_, _)
Join(sep, parts) ==
    IF parts = <<>> THEN ""
    ELSE IF Len(parts) = 1 THEN parts[1]
    ELSE parts[1] \o sep \o Join(sep, Tail(parts))

Digit(d) ==
    CASE d = 0 -> "0" [] d = 1 -> "1" [] d = 2 -> "2" [] d = 3 -> "3"
      [] d = 4 -> "4" [] d = 5 -> "5" [] d = 6 -> "6" [] d = 7 -> "7"
      [] d = 8 -> "8" [] d = 9 -> "9"

RECURSIVE NumStr(_)
NumStr(n) == IF n < 10 THEN Digit(n) ELSE NumStr(n \div 10) \o Digit(n % 10)

\* json.dumps(v) with the default separators; the strings of the model need
\* no escaping, and the keys of a dict are written in a fixed order
RECURSIVE JsonDumps(_)
RECURSIVE JsonDumpsItems(_, _)
JsonDumpsItems(f, keys) ==
    IF keys = {} THEN <<>>
    ELSE LET key == CHOOSE x \in keys : TRUE
         IN <<"\"" \o key \o "\": " \o JsonDumps(f[key])>>
            \o JsonDumpsItems(f, keys \ {key})
JsonDumps(v) ==
    CASE v.k = "str" -> "\"" \o v.s \o "\""
      [] v.k = "num" -> NumStr(v.n)
      [] v.k = "null" -> "null"
      [] v.k = "list" ->
            "[" \o Join(", ", [j \in 1..Len(v.l) |-> JsonDumps(v.l[j])]) \o "]"
      [] v.k = "dict" ->
            "{" \o Join(", ", JsonDumpsItems(v.f, DOMAIN v.f)) \o "}"

\* repr(v)
RECURSIVE PyRepr(_)
RECURSIVE PyReprItems(_, _)
PyReprItems(f, keys) ==
    IF keys = {} THEN <<>>
    ELSE LET key == CHOOSE x \in keys : TRUE
         IN <<"'" \o key \o "': " \o PyRepr(f[key])>>
            \o PyReprItems(f, keys \ {key})
PyRepr(v) ==
    CASE v.k = "str" -> "'" \o v.s \o "'"
      [] v.k = "num" -> NumStr(v.n)
      [] v.k = "null" -> "None"
      [] v.k = "list" ->
            "[" \o Join(", ", [j \in 1..Len(v.l) |-> PyRepr(v.l[j])]) \o "]"
      [] v.k = "dict" ->
            "{" \o Join(", ", PyReprItems(v.f, DOMAIN v.f)) \o "}"

\* str(v)
PyStr(v) == IF v.k = "str" THEN v.s ELSE PyRepr(v)

----------------------------------------------------------------------------
(* Configuration *)

\* BLOCKED_PARAMS with its last entry missing
BLOCKED_PARAMS_short ==
    <<"tool_choice", "thinking", "reasoning_effort", "extended_thinking",
      "budget_tokens", "metadata">>

BLOCKED_PARAMS ==
    <<"tool_choice", "thinking", "reasoning_effort", "extended_thinking",
      "budget_tokens", "metadata", "stream_options">>

BLOCKED_HEADERS == <<"host", "content-length", "anthropic-beta">>

----------------------------------------------------------------------------
(* Request processing *)

\* remove_cache_control without the recursion into the values of a dict
remove_cache_control_shallow(obj) ==
    IF IsDict(obj) THEN Del(obj, "cache_control")
    ELSE IF IsList(obj)
    THEN L([j \in 1..Len(obj.l) |->
              IF IsDict(obj.l[j]) THEN Del(obj.l[j], "cache_control")
              ELSE obj.l[j]])
    ELSE obj

\* remove_cache_control returning as soon as it has removed a key
RECURSIVE remove_cache_control_peel(_)
remove_cache_control_peel(obj) ==
    IF IsDict(obj)
    THEN IF Has(obj, "cache_control") THEN Del(obj, "cache_control")
         ELSE D([key \in DOMAIN obj.f |-> remove_cache_control_peel(obj.f[key])])
    ELSE IF IsList(obj)
    THEN L([j \in 1..Len(obj.l) |-> remove_cache_control_peel(obj.l[j])])
    ELSE obj

RECURSIVE remove_cache_control(_)
remove_cache_control(obj) ==
    IF IsDict(obj)
    THEN D([key \in DOMAIN obj.f \ {"cache_control"} |->
              remove_cache_control(obj.f[key])])
    ELSE IF IsList(obj)
    THEN L([j \in 1..Len(obj.l) |-> remove_cache_control(obj.l[j])])
    ELSE obj

\* the ids of the items of a list that are dicts carrying a truthy id and,
\* with a type given, that type
ItemIds(list, type) ==
    IF IsList(list)
    THEN {Get(list.l[j], "id", Null) :
            j \in {n \in 1..Len(list.l) :
                     /\ IsDict(list.l[n])
                     /\ type # "" => Get(list.l[n], "type", Null) = S(type)
                     /\ Truthy(Get(list.l[n], "id", Null))}}
    ELSE {}

\* extract_tool_use_ids reading the OpenAI format alone
extract_tool_call_ids_only(message) ==
    ItemIds(Get(message, "tool_calls", L(<<>>)), "")

extract_tool_use_ids(message) ==
    ItemIds(Get(message, "content", L(<<>>)), "tool_use")
    \cup ItemIds(Get(message, "tool_calls", L(<<>>)), "")

convert_tool_use_to_openai(tool_use) ==
    LET input_data == Get(tool_use, "input", D(EmptyMap))
        arguments == IF IsDict(input_data) THEN JsonDumps(input_data)
                     ELSE PyStr(input_data)
    IN D([id |-> Get(tool_use, "id", S("")),
          type |-> S("function"),
          function |-> D([name |-> Get(tool_use, "name", S("")),
                          arguments |-> S(arguments)])])

\* the text_parts of a tool_result's list content
RECURSIVE TextParts(_)
TextParts(items) ==
    IF items = <<>> THEN <<>>
    ELSE LET item == Head(items)
         IN (IF IsDict(item) /\ Get(item, "type", Null) = S("text")
             THEN <<Get(item, "text", S("")).s>>
             ELSE IF IsStr(item) THEN <<item.s>>
             ELSE <<>>) \o TextParts(Tail(items))

convert_tool_result_to_openai(tool_result) ==
    LET content == Get(tool_result, "content", S(""))
        flat == IF IsList(content) THEN S(Join("\n", TextParts(content.l)))
                ELSE content
    IN D([role |-> S("tool"),
          tool_call_id |-> Get(tool_result, "tool_use_id", S("")),
          content |-> S(PyStr(flat))])

\* the image conversion leaving the type of the block as it was
convert_image_keep_type(item) ==
    LET source == Get(item, "source", D(EmptyMap))
        source_type == Get(source, "type", S(""))
        url ==
          IF source_type = S("base64")
          THEN S("data:" \o Get(source, "media_type", S("image/png")).s
                 \o ";base64," \o Get(source, "data", S("")).s)
          ELSE IF source_type = S("url") THEN Get(source, "url", S(""))
          ELSE Get(item, "url", Get(source, "url", S("")))
    IN D([type |-> S("image"), image_url |-> D([url |-> url])])

convert_image_to_openai(item) ==
    LET source == Get(item, "source", D(EmptyMap))
        source_type == Get(source, "type", S(""))
        url ==
          IF source_type = S("base64")
          THEN S("data:" \o Get(source, "media_type", S("image/png")).s
                 \o ";base64," \o Get(source, "data", S("")).s)
          ELSE IF source_type = S("url") THEN Get(source, "url", S(""))
          ELSE Get(item, "url", Get(source, "url", S("")))
    IN D([type |-> S("image_url"), image_url |-> D([url |-> url])])

\* the concatenation of Op(item) over the items of a sequence, in order
RECURSIVE FlatMap(_, _)
FlatMap(Op(_), items) ==
    IF items = <<>> THEN <<>>
    ELSE Op(Head(items)) \o FlatMap(Op, Tail(items))

IsType(item, type) == IsDict(item) /\ Get(item, "type", S("")) = S(type)

\* clean_messages, the assistant branch: the tool_calls list built from the
\* tool_use items of a list content
AssistantToolCalls(content) ==
    FlatMap(LAMBDA item :
              IF IsDict(item) /\ Get(item, "type", Null) = S("tool_use")
              THEN <<convert_tool_use_to_openai(item)>> ELSE <<>>,
            content.l)

\* clean_messages, the assistant branch: other_content
AssistantOtherContent(content) ==
    FlatMap(LAMBDA item :
              IF IsDict(item)
              THEN (IF Get(item, "type", Null) = S("tool_use") THEN <<>>
                    ELSE <<remove_cache_control(item)>>)
              ELSE <<item>>,
            content.l)

\* clean_messages, the assistant branch: the content an assistant message
\* gets when tool_use blocks were found in it
AssistantTextContent(other_content) ==
    LET text_parts ==
          FlatMap(LAMBDA item :
                    IF IsDict(item) /\ Get(item, "type", Null) = S("text")
                    THEN <<Get(item, "text", S("")).s>> ELSE <<>>,
                  other_content)
    IN IF other_content # <<>> /\ text_parts # <<>>
       THEN S(Join(" ", text_parts)) ELSE Null

\* clean_messages, the assistant branch: the message appended to cleaned
CleanAssistant(msg) ==
    LET content == Get(msg, "content", Null)
    IN IF IsList(content)
       THEN LET tool_calls == AssistantToolCalls(content)
                other_content == AssistantOtherContent(content)
            IN IF tool_calls # <<>>
               THEN Put(Put(msg, "tool_calls", L(tool_calls)),
                        "content", AssistantTextContent(other_content))
               ELSE Put(msg, "content",
                        IF other_content # <<>> THEN L(other_content)
                        ELSE content)
       ELSE msg

\* the test of the user branch asking only whether calls are pending
MatchesAnyPending(tool_use_id, pending) == pending # {}

\* clean_messages, the user branch: the test that keeps a tool_result
Matches(tool_use_id, pending) == tool_use_id \in pending

\* clean_messages, the user branch: new_content
UserNewContent(content, pending) ==
    FlatMap(LAMBDA item :
              IF IsDict(item)
              THEN (IF IsType(item, "tool_result") THEN <<>>
                    ELSE IF IsType(item, "image")
                    THEN <<convert_image_to_openai(item)>>
                    ELSE <<remove_cache_control(item)>>)
              ELSE <<item>>,
            content.l)

\* clean_messages, the user branch: tool_messages
UserToolMessages(content, pending) ==
    FlatMap(LAMBDA item :
              IF /\ IsType(item, "tool_result")
                 /\ Matches(Get(item, "tool_use_id", S("")), pending)
              THEN <<convert_tool_result_to_openai(item)>> ELSE <<>>,
            content.l)

\* the user branch with the tool messages appended before the user message
CleanUserToolsFirst(msg, pending) ==
    LET content == Get(msg, "content", Null)
        new_content == UserNewContent(content, pending)
    IN UserToolMessages(content, pending)
       \o (IF new_content # <<>> THEN <<Put(msg, "content", L(new_content))>>
           ELSE <<>>)

\* clean_messages, the user branch: the messages appended to cleaned, the
\* user message (when content is left in it) and then the tool messages
CleanUser(msg, pending) ==
    LET content == Get(msg, "content", Null)
        new_content == UserNewContent(content, pending)
    IN (IF new_content # <<>> THEN <<Put(msg, "content", L(new_content))>>
        ELSE <<>>)
       \o UserToolMessages(content, pending)

\* clean_messages, the last branch (string content, or another role)
CleanOther(msg) ==
    LET content == Get(msg, "content", Null)
    IN IF IsList(content)
       THEN Put(msg, "content",
                L([j \in 1..Len(content.l) |->
                     IF IsDict(content.l[j])
                     THEN remove_cache_control(content.l[j])
                     ELSE content.l[j]]))
       ELSE msg

\* which branch of the loop body of clean_messages a message takes
Branch(msg) ==
    IF ~IsDict(msg) THEN "raw"
    ELSE IF Get(msg, "role", S("")) = S("assistant") THEN "assistant"
    ELSE IF Get(msg, "role", S("")) = S("user")
            /\ IsList(Get(msg, "content", Null)) THEN "user"
    ELSE "other"

\* one iteration of the loop of clean_messages: the messages it appends
StepOutput(msg, pending) ==
    CASE Branch(msg) = "raw" -> <<msg>>
      [] Branch(msg) = "assistant" -> <<CleanAssistant(msg)>>
      [] Branch(msg) = "user" -> CleanUser(msg, pending)
      [] OTHER -> <<CleanOther(msg)>>

\* one iteration of the loop of clean_messages: pending_tool_ids after it
StepPending(msg, pending) ==
    CASE Branch(msg) = "assistant" -> extract_tool_use_ids(msg)
      [] Branch(msg) = "user" -> {}
      [] OTHER -> pending

\* clean_messages as a function: the loop run from a pending set to the end
RECURSIVE CleanFrom(_, _)
CleanFrom(messages, pending) ==
    IF messages = <<>> THEN <<>>
    ELSE StepOutput(Head(messages), pending)
         \o CleanFrom(Tail(messages), StepPending(Head(messages), pending))

clean_messages(messages) == CleanFrom(messages, {})

\* process_request_body, the loop over BLOCKED_PARAMS
RECURSIVE RemoveParams(_, _)
RemoveParams(d, params) ==
    IF params = <<>> THEN d
    ELSE RemoveParams(IF Has(d, Head(params)) THEN Del(d, Head(params)) ELSE d,
                      Tail(params))

\* process_request_body removing cache_control from the whole envelope
RemoveAllCacheControl(d) == remove_cache_control(d)

\* process_request_body, the system field
RemoveSystemCacheControl(d) ==
    IF Has(d, "system") THEN Put(d, "system", remove_cache_control(d.f["system"]))
    ELSE d

\* process_request_body as a function of a dict
process_request_body(d) ==
    LET stripped == RemoveSystemCacheControl(RemoveParams(d, BLOCKED_PARAMS))
    IN IF Has(stripped, "messages")
       THEN Put(stripped, "messages", L(clean_messages(stripped.f["messages"].l)))
       ELSE stripped

----------------------------------------------------------------------------
(* HTTP handler: bodies, headers and the backend *)

\* a body on the wire: nothing, text that is not JSON, or the serialization
\* of a JSON value
EmptyBody == [kind |-> "empty", value |-> Null]
TextBody(s) == [kind |-> "text", value |-> S(s)]
JsonBody(v) == [kind |-> "json", value |-> v]

\* len(body)
BodyLen(b) ==
    CASE b.kind = "empty" -> 0
      [] b.kind = "text" -> Len(b.value.s)
      [] b.kind = "json" -> Len(JsonDumps(b.value))

\* key.lower(), for the header names of the model
Lower(name) ==
    CASE name = "Host" -> "host"
      [] name = "Content-Length" -> "content-length"
      [] name = "Content-Type" -> "content-type"
      [] name = "Anthropic-Beta" -> "anthropic-beta"
      [] name = "ANTHROPIC-BETA" -> "anthropic-beta"
      [] name = "Authorization" -> "authorization"
      [] name = "Transfer-Encoding" -> "transfer-encoding"
      [] name = "Content-Encoding" -> "content-encoding"
      [] name = "X-Request-Id" -> "x-request-id"
      [] name = "Location" -> "location"
      [] name = "Content-length" -> "content-length"
      [] name = "Content-type" -> "content-type"
      [] name = "Anthropic-beta" -> "anthropic-beta"
      [] name = "X-request-id" -> "x-request-id"
      [] OTHER -> name

\* key.capitalize(), for the header names of the model
Capitalize(name) ==
    CASE Lower(name) = "host" -> "Host"
      [] Lower(name) = "content-length" -> "Content-length"
      [] Lower(name) = "content-type" -> "Content-type"
      [] Lower(name) = "anthropic-beta" -> "Anthropic-beta"
      [] Lower(name) = "authorization" -> "Authorization"
      [] Lower(name) = "transfer-encoding" -> "Transfer-encoding"
      [] Lower(name) = "content-encoding" -> "Content-encoding"
      [] Lower(name) = "x-request-id" -> "X-request-id"
      [] OTHER -> name

\* urllib.request.Request.add_header: self.headers[key.capitalize()] = val
AddHeader(hs, key, val) ==
    IF \E j \in 1..Len(hs) : hs[j][1] = Capitalize(key)
    THEN [j \in 1..Len(hs) |->
            IF hs[j][1] = Capitalize(key) THEN <<hs[j][1], val>> ELSE hs[j]]
    ELSE Append(hs, <<Capitalize(key), val>>)

\* add_header for each header of a list, in order, onto the headers hs
RECURSIVE AddHeaders(_, _)
AddHeaders(hs, list) ==
    IF list = <<>> THEN hs
    ELSE AddHeaders(AddHeader(hs, Head(list)[1], Head(list)[2]), Tail(list))

HasHeader(hs, lname) == \E j \in 1..Len(hs) : Lower(hs[j][1]) = lname

\* do_POST: rfile.read(int(headers.get('Content-Length', 0)))
ReadBody(hs, sent) == IF HasHeader(hs, "content-length") THEN sent ELSE EmptyBody

\* do_POST: the headers copied to the backend request
RECURSIVE FilterHeaders(_, _)
FilterHeaders(hs, blocked) ==
    IF hs = <<>> THEN <<>>
    ELSE (IF Lower(Head(hs)[1]) \in blocked THEN <<>> ELSE <<Head(hs)>>)
         \o FilterHeaders(Tail(hs), blocked)

\* do_GET: the headers of the backend request
GetHeaders(hs) ==
    AddHeaders(<<>>, FilterHeaders(hs, {BLOCKED_HEADERS[j] :
                                         j \in 1..Len(BLOCKED_HEADERS)}))

\* do_POST: the headers of the backend request
OutboundHeaders(hs) ==
    AddHeader(AddHeaders(<<>>, FilterHeaders(hs, {BLOCKED_HEADERS[j] :
                                              j \in 1..Len(BLOCKED_HEADERS)})),
              "Content-Type", "application/json")

\* do_POST: the response relayed from a backend answer with a 2xx status
RelayResponse(reply) ==
    [status |-> reply.status,
     headers |-> FilterHeaders(reply.headers,
                               {"transfer-encoding", "content-encoding"})
                 \o <<<<"Content-Length", NumStr(BodyLen(reply.body))>>>>,
     body |-> reply.body]

\* do_POST: the response relayed from an HTTPError of the backend
RelayError(reply) ==
    [status |-> reply.status,
     headers |-> <<<<"Content-Type", "application/json">>,
                   <<"Content-Length", NumStr(BodyLen(reply.body))>>>>,
     body |-> reply.body]

\* do_POST: the response of the outermost except clause
ErrorResponse(message) ==
    LET error_response == JsonBody(D([error |-> S(message)]))
    IN [status |-> 500,
        headers |-> <<<<"Content-Type", "application/json">>,
                      <<"Content-Length", NumStr(BodyLen(error_response))>>>>,
        body |-> error_response]

\* do_GET: the answer to /health (the timestamp is the clock's)
HealthResponse ==
    LET health == JsonBody(D([status |-> S("healthy"),
                             service |-> S("cursor-gcp-connector"),
                             timestamp |-> S("2024-01-01T00:00:00")]))
    IN [status |-> 200,
        headers |-> <<<<"Content-Type", "application/json">>,
                      <<"Content-Length", NumStr(BodyLen(health))>>>>,
        body |-> health]

\* do_GET: the response relayed from a backend answer with a 2xx status
RelayGetResponse(reply) ==
    [status |-> reply.status,
     headers |-> FilterHeaders(reply.headers, {"transfer-encoding"}),
     body |-> reply.body]

\* do_GET: the response of its except clause
GetErrorResponse == [status |-> 500, headers |-> <<>>, body |-> EmptyBody]

NoResponse == [status |-> 0, headers |-> <<>>, body |-> EmptyBody]
NoRequest ==
    [sent |-> FALSE, method |-> "", path |-> "", headers |-> <<>>,
     body |-> EmptyBody]
NoBackend == [calls |-> 0, replies |-> <<>>]

----------------------------------------------------------------------------
(* The requests the model draws from *)

MaxMsgs == 3
MaxDepth == 2
MaxRedirects == 1

CacheControl == D([type |-> S("ephemeral")])
Text(s) == D([type |-> S("text"), text |-> S(s)])
WithCacheControl(block) == Put(block, "cache_control", CacheControl)

\* a block carrying cache_control with blocks nested d deep inside it
RECURSIVE Nested(_)
Nested(d) ==
    IF d = 0 THEN WithCacheControl(Text("deep"))
    ELSE D([type |-> S("document"), cache_control |-> CacheControl,
            content |-> L(<<Nested(d - 1), Text("flat")>>)])

ToolUse(id, name, input) ==
    D([type |-> S("tool_use"), id |-> S(id), name |-> S(name), input |-> input])
ToolResult(id, content) ==
    D([type |-> S("tool_result"), tool_use_id |-> S(id), content |-> content])
ToolCall(id) ==
    D([id |-> S(id), type |-> S("function"),
       function |-> D([name |-> S("g"), arguments |-> S("{}")])])
Image64 ==
    D([type |-> S("image"),
       source |-> D([type |-> S("base64"), media_type |-> S("image/png"),
                     data |-> S("AAAA")])])
Msg(role, content) == D([role |-> S(role), content |-> content])

AsstCallA == Msg("assistant", L(<<ToolUse("a", "f", D([x |-> N(1)]))>>))
AsstCalls ==
    Msg("assistant",
        L(<<Text("let me"), WithCacheControl(ToolUse("a", "f", D([x |-> N(1)]))),
            Text("see"), ToolUse("b", "g", S("raw")),
            ToolUse("", "h", D(EmptyMap))>>))
AsstText == Msg("assistant", L(<<WithCacheControl(Text("sure")), Nested(MaxDepth)>>))
AsstOpenAI ==
    Put(Msg("assistant", L(<<Text("calling")>>)), "tool_calls", L(<<ToolCall("b")>>))
UserString == Msg("user", S("hello"))
UserResultA == Msg("user", L(<<ToolResult("a", S("ok"))>>))
UserTextResultA == Msg("user", L(<<Text("and"), ToolResult("a", S("ok"))>>))
UserMixed ==
    Msg("user",
        L(<<ToolResult("a", L(<<Text("r1"), WithCacheControl(Text("r2"))>>)),
            Image64, ToolResult("z", S("old")), ToolResult("b", N(7)),
            ToolResult("", S("none"))>>))
UserBlocks == Msg("user", L(<<WithCacheControl(Text("look")), Nested(MaxDepth)>>))
SystemBlocks == Msg("system", L(<<WithCacheControl(Text("rules")), Nested(MaxDepth)>>))
ToolBlocks ==
    Put(Msg("tool", L(<<WithCacheControl(Text("res"))>>)), "tool_call_id", S("b"))
RawItem == S("junk")

MessagePool ==
    {AsstCallA, AsstCalls, AsstText, AsstOpenAI, UserString, UserResultA,
     UserTextResultA, UserMixed, UserBlocks, SystemBlocks, ToolBlocks, RawItem}

MessageLists == UNION {[1..n -> MessagePool] : n \in 0..MaxMsgs}

SystemValues ==
    {S("be brief"), L(<<WithCacheControl(Text("be brief")), Nested(MaxDepth)>>)}

Passthrough ==
    [model |-> S("claude"), temperature |-> N(1),
     tools |-> L(<<D([name |-> S("f"), cache_control |-> CacheControl])>>)]

\* an envelope with the given top-level keys, each with the value given for it
Envelope(keys, values) == D([key \in keys |-> values[key]])

\* the top-level fields the backend does not accept
DeniedFields ==
    {"tool_choice", "thinking", "reasoning_effort", "extended_thinking",
     "budget_tokens", "metadata", "stream_options"}

TopLevelValues ==
    [key \in DeniedFields |-> D([type |-> S("auto")])] @@ Passthrough

\* envelopes that vary the messages, and envelopes that vary the top level
MessageEnvelopes ==
    {D([model |-> S("claude"), messages |-> L(ms)]) : ms \in MessageLists}
TopLevelEnvelopes ==
    {Envelope(blocked \cup pass, TopLevelValues) :
       blocked \in SUBSET DeniedFields,
       pass \in {{}, {"model"}, DOMAIN Passthrough}}
    \cup {Put(Put(Envelope(DOMAIN Passthrough \cup {"metadata", "thinking"},
                           TopLevelValues),
                  "system", sys), "messages",
              L(<<SystemBlocks, AsstText, UserBlocks, ToolBlocks>>)) :
            sys \in SystemValues}

DefaultHeaders ==
    <<<<"Host", "localhost:4001">>, <<"Content-Length", "10">>,
      <<"Authorization", "Bearer k">>>>
HeaderLists ==
    {DefaultHeaders,
     <<<<"Host", "localhost:4001">>>>,
     <<<<"Content-Length", "10">>, <<"Anthropic-Beta", "x">>,
       <<"X-Request-Id", "r1">>>>,
     <<<<"ANTHROPIC-BETA", "y">>, <<"Content-Type", "text/plain">>,
       <<"Content-Length", "10">>, <<"anthropic-beta", "z">>>>,
     <<<<"Content-Length", "10">>, <<"Content-Type", "application/json">>,
       <<"X-Request-Id", "r1">>, <<"X-Request-Id", "r2">>>>}

\* the inbound requests: method, path, headers and the body sent
Requests ==
    {[method |-> "POST", path |-> "/v1/chat/completions",
      headers |-> DefaultHeaders, body |-> JsonBody(e)] :
       e \in MessageEnvelopes \cup TopLevelEnvelopes}
    \cup {[method |-> "POST", path |-> "/v1/chat/completions",
           headers |-> hs, body |-> b] :
            hs \in HeaderLists,
            b \in {EmptyBody, TextBody("{oops"), JsonBody(N(5)),
                   JsonBody(D([model |-> S("claude")]))}}
    \cup {[method |-> "GET", path |-> p, headers |-> hs, body |-> EmptyBody] :
            p \in {"/health", "/v1/models"}, hs \in HeaderLists}

\* what the backend may answer: a response (urlopen returns for a 2xx status
\* and raises HTTPError for another), or nothing (URLError, timeout)
BackendReplies ==
    {[kind |-> "response", status |-> 200,
      headers |-> <<<<"Content-Type", "application/json">>,
                    <<"Transfer-Encoding", "chunked">>,
                    <<"Content-Encoding", "gzip">>>>,
      body |-> JsonBody(D([id |-> S("r")]))],
     [kind |-> "response", status |-> 201,
      headers |-> <<<<"Content-Length", "11">>, <<"X-Request-Id", "b1">>>>,
      body |-> TextBody("created 201")],
     [kind |-> "response", status |-> 302,
      headers |-> <<<<"Location", "/elsewhere">>, <<"Content-Length", "5">>>>,
      body |-> TextBody("moved")],
     [kind |-> "response", status |-> 400,
      headers |-> <<<<"Content-Type", "application/json">>>>,
      body |-> JsonBody(D([error |-> S("bad request")]))],
     [kind |-> "response", status |-> 503,
      headers |-> <<<<"Content-Type", "text/html">>>>,
      body |-> TextBody("unavailable")],
     [kind |-> "unreachable", status |-> 0, headers |-> <<>>, body |-> EmptyBody]}

----------------------------------------------------------------------------
\* urlopen: the statuses its redirect handler follows for a request method
\* (urllib.request.HTTPRedirectHandler.redirect_request)
Redirects(m) ==
    IF m = "GET" THEN {301, 302, 303, 307, 308} ELSE {301, 302, 303}

\* urlopen: the answer is a redirect that is followed with a new GET request
IsRedirect(m, reply) ==
    /\ reply.kind = "response"
    /\ reply.status \in Redirects(m)
    /\ HasHeader(reply.headers, "location")

\* urlopen of a request of method m: the answers of the backend to the
\* request and to the GET requests of the redirects followed, the last one
\* being the outcome of urlopen
ReplyChains(m) ==
    {c \in UNION {[1..n -> BackendReplies] : n \in 1..(MaxRedirects + 1)} :
       /\ \A j \in 1..(Len(c) - 1) :
            IsRedirect(IF j = 1 THEN m ELSE "GET", c[j])
       /\ ~IsRedirect(IF Len(c) = 1 THEN m ELSE "GET", c[Len(c)])}

(* The server: one request is handled at a time *)

\* the server waits for a request
Init ==
    /\ method = "" /\ path = ""
    /\ headers = <<>> /\ body = EmptyBody
    /\ pc = "idle"
    /\ backend = NoBackend
    /\ data = Null
    /\ i = 0
    /\ pending_tool_ids = {}
    /\ cleaned = <<>>
    /\ origin = <<>>
    /\ request = NoRequest
    /\ response = NoResponse

\* serve_forever: a request arrives and its handler is called
Accept ==
    /\ pc = "idle"
    /\ \E r \in Requests :
         /\ method' = r.method /\ path' = r.path
         /\ headers' = r.headers /\ body' = r.body
    /\ pc' = "read"
    /\ UNCHANGED <<data, i, pending_tool_ids, cleaned, origin, request,
                   backend, response>>

\* the handler has returned: the server waits for the next request
Return ==
    /\ pc = "done"
    /\ method' = "" /\ path' = ""
    /\ headers' = <<>> /\ body' = EmptyBody
    /\ pc' = "idle"
    /\ backend' = NoBackend
    /\ data' = Null
    /\ i' = 0
    /\ pending_tool_ids' = {}
    /\ cleaned' = <<>>
    /\ origin' = <<>>
    /\ request' = NoRequest
    /\ response' = NoResponse

\* do_GET: /health is answered by the proxy
Health ==
    /\ pc = "read" /\ method = "GET" /\ path = "/health"
    /\ response' = HealthResponse
    /\ pc' = "done"
    /\ UNCHANGED <<method, path, headers, body, data, i, pending_tool_ids,
                   cleaned, origin, request, backend>>

\* do_GET: any other path is forwarded and the answer relayed; an HTTPError
\* of urlopen is caught with every other exception
ForwardGet ==
    /\ pc = "read" /\ method = "GET" /\ path # "/health"
    /\ request' = [sent |-> TRUE, method |-> "GET", path |-> path,
                   headers |-> GetHeaders(headers), body |-> EmptyBody]
    /\ \E chain \in ReplyChains("GET") :
         LET reply == chain[Len(chain)]
         IN /\ backend' = [calls |-> backend.calls + Len(chain),
                           replies |-> chain]
            /\ response' =
                 IF reply.kind = "response" /\ reply.status \in 200..299
                 THEN RelayGetResponse(reply)
                 ELSE GetErrorResponse
    /\ pc' = "done"
    /\ UNCHANGED <<method, path, headers, body, data, i, pending_tool_ids,
                   cleaned, origin>>

\* the outermost except clause of do_POST
Raise(message) ==
    /\ response' = ErrorResponse(message)
    /\ pc' = "done"

\* json.loads(body) without the test for an empty body
LoadsAlways(read) ==
    CASE read.kind = "json" -> [ok |-> TRUE, value |-> read.value]
      [] OTHER -> [ok |-> FALSE, value |-> Null]

\* do_POST: json.loads(body) if body else {}
Loads(read) ==
    CASE read.kind = "empty" -> [ok |-> TRUE, value |-> D(EmptyMap)]
      [] read.kind = "json" -> [ok |-> TRUE, value |-> read.value]
      [] OTHER -> [ok |-> FALSE, value |-> Null]

\* do_POST: read the body and parse it
ParseBody ==
    /\ pc = "read" /\ method = "POST"
    /\ LET parsed == Loads(ReadBody(headers, body))
       IN IF parsed.ok
          THEN /\ data' = parsed.value
               /\ pc' = "params"
               /\ UNCHANGED response
          ELSE /\ Raise("Expecting value: line 1 column 1 (char 0)")
               /\ UNCHANGED data
    /\ UNCHANGED <<backend, method, path, headers, body, i, pending_tool_ids, cleaned, origin, request>>

\* process_request_body: remove the blocked parameters (a body that is a
\* JSON number is not iterable)
RemoveBlockedParams ==
    /\ pc = "params"
    /\ IF IsDict(data)
       THEN /\ data' = RemoveParams(data, BLOCKED_PARAMS)
            /\ pc' = "system"
            /\ UNCHANGED response
       ELSE /\ Raise("argument of type 'int' is not iterable")
            /\ UNCHANGED data
    /\ UNCHANGED <<backend, method, path, headers, body, i, pending_tool_ids, cleaned, origin, request>>

\* process_request_body: remove cache_control from the system field
CleanSystem ==
    /\ pc = "system"
    /\ data' = RemoveSystemCacheControl(data)
    /\ pc' = "messages"
    /\ UNCHANGED <<backend, method, path, headers, body, i, pending_tool_ids, cleaned, origin,
                   request, response>>

\* process_request_body / clean_messages: enter the loop when there are
\* messages
BeginClean ==
    /\ pc = "messages"
    /\ IF Has(data, "messages")
       THEN /\ pc' = "clean"
            /\ i' = 0
            /\ cleaned' = <<>>
            /\ origin' = <<>>
            /\ pending_tool_ids' = {}
       ELSE /\ pc' = "forward"
            /\ UNCHANGED <<i, cleaned, origin, pending_tool_ids>>
    /\ UNCHANGED <<backend, method, path, headers, body, data, request, response>>

\* clean_messages: one iteration of the loop, on message i + 1
CleanStep ==
    /\ pc = "clean"
    /\ i < Len(data.f["messages"].l)
    /\ LET msg == data.f["messages"].l[i + 1]
           out == StepOutput(msg, pending_tool_ids)
       IN /\ cleaned' = cleaned \o out
          /\ origin' = origin \o
               [j \in 1..Len(out) |->
                  [src |-> i + 1,
                   conv |-> Branch(msg) = "user"
                            /\ j > Len(out) - Len(UserToolMessages(
                                     Get(msg, "content", Null), pending_tool_ids))]]
          /\ pending_tool_ids' = StepPending(msg, pending_tool_ids)
    /\ i' = i + 1
    /\ UNCHANGED <<backend, method, path, headers, body, pc, data, request, response>>

\* clean_messages returns; process_request_body stores the result
EndClean ==
    /\ pc = "clean"
    /\ i = Len(data.f["messages"].l)
    /\ data' = Put(data, "messages", L(cleaned))
    /\ pc' = "forward"
    /\ UNCHANGED <<backend, method, path, headers, body, i, pending_tool_ids, cleaned, origin,
                   request, response>>

\* do_POST: forward the rewritten body and relay what the backend answers
\* (the debug logging between the two is not modelled)
Forward ==
    /\ pc = "forward"
    /\ request' = [sent |-> TRUE, method |-> "POST", path |-> path,
                   headers |-> OutboundHeaders(headers),
                   body |-> JsonBody(data)]
    /\ \E chain \in ReplyChains("POST") :
         LET reply == chain[Len(chain)]
         IN /\ backend' = [calls |-> backend.calls + Len(chain),
                           replies |-> chain]
            /\ response' =
                 IF reply.kind = "unreachable"
                 THEN ErrorResponse("<urlopen error [Errno 111] Connection refused>")
                 ELSE IF reply.status \in 200..299 THEN RelayResponse(reply)
                 ELSE RelayError(reply)
    /\ pc' = "done"
    /\ UNCHANGED <<method, path, headers, body, data, i, pending_tool_ids, cleaned, origin>>

Next ==
    \/ Accept
    \/ Health
    \/ ForwardGet
    \/ ParseBody
    \/ RemoveBlockedParams
    \/ CleanSystem
    \/ BeginClean
    \/ CleanStep
    \/ EndClean
    \/ Forward
    \/ Return

Spec == Init /\ [][Next]_vars

----------------------------------------------------------------------------
(* Properties *)

\* the body as parsed, and the messages of the inbound envelope
Inbound == ReadBody(headers, body).value
InMsgs ==
    IF IsDict(Inbound) /\ Has(Inbound, "messages")
    THEN Inbound.f["messages"].l ELSE <<>>

RoleOf(m) == IF IsDict(m) THEN Get(m, "role", S("")) ELSE Null
ContentOf(m) == IF IsDict(m) THEN Get(m, "content", Null) ELSE Null
BlocksOf(m) == IF IsList(ContentOf(m)) THEN ContentOf(m).l ELSE <<>>

\* the ids of the tool_calls an output message carries
CallIds(m) ==
    IF IsDict(m) /\ Has(m, "tool_calls") /\ IsList(m.f["tool_calls"])
    THEN {Get(m.f["tool_calls"].l[j], "id", Null) :
            j \in 1..Len(m.f["tool_calls"].l)}
    ELSE {}

\* the positions of cleaned that hold a converted tool_result
Converted == {p \in 1..Len(cleaned) : origin[p].conv}

\* C1: every tool message converted from a tool_result comes directly after
\* the assistant message whose tool_calls hold its id, with nothing between
\* the two but other tool messages converted for that assistant message.
C1_ToolFollowsItsAssistant ==
    \A p \in Converted :
      \E q \in 1..(p - 1) :
        /\ RoleOf(cleaned[q]) = S("assistant")
        /\ cleaned[p].f["tool_call_id"] \in CallIds(cleaned[q])
        /\ \A r \in (q + 1)..(p - 1) :
             r \in Converted /\ cleaned[r].f["tool_call_id"] \in CallIds(cleaned[q])

\* C2: during the pass of clean_messages the pending set is empty after any
\* message of role user, string content or list content; so a tool_result
\* for id a in the second of two user messages that follow the assistant
\* tool_use a is never converted.
C2_PendingEmptyAfterUser ==
    /\ (pc = "clean" /\ i >= 1 /\ RoleOf(InMsgs[i]) = S("user"))
         => pending_tool_ids = {}
    /\ \A p \in Converted :
         LET n == origin[p].src
         IN ~ /\ n >= 3
              /\ RoleOf(InMsgs[n - 1]) = S("user")
              /\ RoleOf(InMsgs[n - 2]) = S("assistant")
              /\ \E j \in 1..Len(BlocksOf(InMsgs[n - 2])) :
                   /\ IsType(BlocksOf(InMsgs[n - 2])[j], "tool_use")
                   /\ Get(BlocksOf(InMsgs[n - 2])[j], "id", Null)
                        = cleaned[p].f["tool_call_id"]

\* the tool messages the current user message has been converted to
ConvertedFrom(n) == {p \in Converted : origin[p].src = n}

\* C3: in a user message with list content a tool_result is converted to a
\* tool message exactly when its tool_use_id is in the pending set; every
\* other tool_result is dropped, none stays in the user content, and a user
\* message made of orphaned tool_results alone adds no message.
C3_Step ==
    (pc = "clean" /\ i' = i + 1 /\ Branch(InMsgs[i + 1]) = "user") =>
      LET blocks == BlocksOf(InMsgs[i + 1])
          results == {j \in 1..Len(blocks) : IsType(blocks[j], "tool_result")}
          idOf(j) == Get(blocks[j], "tool_use_id", S(""))
          added == (Len(cleaned) + 1)..Len(cleaned')
          tools == {p \in added : origin'[p].conv}
      IN /\ \A j \in results :
              (\E p \in tools : cleaned'[p].f["tool_call_id"] = idOf(j))
                <=> idOf(j) \in pending_tool_ids
         /\ Cardinality(tools)
              = Cardinality({j \in results : idOf(j) \in pending_tool_ids})
         /\ \A p \in tools : RoleOf(cleaned'[p]) = S("tool")
         /\ \A p \in added \ tools :
              \A j \in 1..Len(BlocksOf(cleaned'[p])) :
                ~IsType(BlocksOf(cleaned'[p])[j], "tool_result")
         /\ (results = 1..Len(blocks)
               /\ \A j \in results : idOf(j) \notin pending_tool_ids)
              => added = {}

\* C3: every step of clean_messages on a user message with list content
\* converts exactly the tool_results whose id is pending and drops the rest.
C3_ConvertedIffPending == [][C3_Step]_vars

\* a user message after an assistant call: one of its tool_results has been
\* converted and another one dropped
C3_Witness ==
    /\ pc = "clean" /\ i >= 2
    /\ Branch(InMsgs[i]) = "user"
    /\ ConvertedFrom(i) # {}
    /\ \E j \in 1..Len(BlocksOf(InMsgs[i])) :
         /\ IsType(BlocksOf(InMsgs[i])[j], "tool_result")
         /\ \A p \in ConvertedFrom(i) :
              cleaned[p].f["tool_call_id"] # BlocksOf(InMsgs[i])[j].f["tool_use_id"]

\* the translation of the inbound envelope is complete
Translated ==
    method = "POST" /\ (pc = "forward" \/ (pc = "done" /\ request.sent))

\* the translation is complete and the envelope is about to be forwarded
Rewritten == method = "POST" /\ pc = "forward"

\* the content a tool message gets from the content of a tool_result: a
\* string as it is, a list as its text blocks joined by newlines
Flattened(content) ==
    IF IsStr(content) THEN content
    ELSE IF IsList(content)
    THEN S(Join("\n", [j \in 1..Len(content.l) |-> content.l[j].f["text"].s]))
    ELSE S(PyStr(content))

\* the round trip of message n's tool_use block u and message n + 1's
\* tool_result block r: the assistant message of the output with the
\* tool_calls entry of u and, after it, the tool message of r
RoundTrip(n, u, r) ==
    \E q \in 1..Len(cleaned) :
      /\ origin[q].src = n
      /\ RoleOf(cleaned[q]) = S("assistant")
      /\ IsList(Get(cleaned[q], "tool_calls", Null))
      /\ \E c \in 1..Len(cleaned[q].f["tool_calls"].l) :
           cleaned[q].f["tool_calls"].l[c] =
             D([id |-> u.f["id"], type |-> S("function"),
                function |-> D([name |-> u.f["name"],
                                arguments |-> S(JsonDumps(u.f["input"]))])])
      /\ \E p \in (q + 1)..Len(cleaned) :
           cleaned[p] = D([role |-> S("tool"), tool_call_id |-> u.f["id"],
                           content |-> Flattened(r.f["content"])])

\* the pairs the round trip is about: a tool_use block of an assistant
\* message and a tool_result block with its id in the user message that
\* directly follows
CallPairs ==
    {x \in UNION {{<<n, u, r>> : u \in 1..Len(BlocksOf(InMsgs[n])),
                                 r \in 1..Len(BlocksOf(InMsgs[n + 1]))} :
                    n \in 1..(Len(InMsgs) - 1)} :
       LET u == BlocksOf(InMsgs[x[1]])[x[2]]
           r == BlocksOf(InMsgs[x[1] + 1])[x[3]]
       IN /\ RoleOf(InMsgs[x[1]]) = S("assistant")
          /\ RoleOf(InMsgs[x[1] + 1]) = S("user")
          /\ IsType(u, "tool_use") /\ IsType(r, "tool_result")
          /\ {"id", "name", "input"} \subseteq DOMAIN u.f
          /\ Get(r, "tool_use_id", Null) = u.f["id"]}

PairUse(x) == BlocksOf(InMsgs[x[1]])[x[2]]
PairResult(x) == BlocksOf(InMsgs[x[1] + 1])[x[3]]

\* C4 as stated: every tool_use block {id, name, input} of an assistant
\* message directly followed by a user message with a tool_result of the
\* same id comes out as a tool_calls entry {id, type function, function
\* {name, arguments = JSON of input}} and, after it, the tool message {role
\* tool, tool_call_id = id, content = the flattened result}.
C4_RoundTripAnyBlock ==
    Rewritten => \A x \in CallPairs : RoundTrip(x[1], PairUse(x), PairResult(x))

\* C4 amended: the same for the tool_use blocks whose id is a non-empty
\* string and whose input is an object.
C4_RoundTrip ==
    Rewritten =>
      \A x \in CallPairs :
        (Truthy(PairUse(x).f["id"]) /\ IsDict(PairUse(x).f["input"]))
          => RoundTrip(x[1], PairUse(x), PairResult(x))

C4_Witness ==
    /\ Rewritten
    /\ \E x \in CallPairs :
         /\ Truthy(PairUse(x).f["id"]) /\ IsDict(PairUse(x).f["input"])
         /\ IsList(PairResult(x).f["content"])
         /\ RoundTrip(x[1], PairUse(x), PairResult(x))

C6_ToolCallsContentScalar ==
    \A p \in 1..Len(cleaned) :
      (RoleOf(cleaned[p]) = S("assistant") /\ Has(cleaned[p], "tool_calls"))
        => ContentOf(cleaned[p]).k \in {"null", "str"}

\* C7: after process_request_body none of tool_choice, thinking,
\* reasoning_effort, extended_thinking, budget_tokens, metadata and
\* stream_options is a top-level field of the envelope, whichever of them
\* the inbound envelope had.
C7_DeniedFieldsAbsent ==
    (Translated /\ IsDict(data)) =>
      /\ DOMAIN data.f \cap DeniedFields = {}
      /\ request.sent => DOMAIN request.body.value.f \cap DeniedFields = {}

C7_Witness ==
    /\ Translated /\ IsDict(Inbound)
    /\ DeniedFields \subseteq DOMAIN Inbound.f
    /\ "model" \in DOMAIN data.f

RECURSIVE HasCacheControl(_)
HasCacheControl(v) ==
    IF IsDict(v)
    THEN "cache_control" \in DOMAIN v.f
         \/ \E key \in DOMAIN v.f : HasCacheControl(v.f[key])
    ELSE IF IsList(v) THEN \E j \in 1..Len(v.l) : HasCacheControl(v.l[j])
    ELSE FALSE

OutMsgs ==
    IF IsDict(data) /\ Has(data, "messages") THEN data.f["messages"].l ELSE <<>>

\* C8: after process_request_body no cache_control key is left at any depth
\* in the system field or in a content block of a message, whatever the role
\* of the message and however deep the block is nested.
C8_NoCacheControlLeft ==
    (Translated /\ IsDict(data)) =>
      /\ Has(data, "system") => ~HasCacheControl(data.f["system"])
      /\ \A p \in 1..Len(OutMsgs) :
           \A j \in 1..Len(BlocksOf(OutMsgs[p])) :
             ~HasCacheControl(BlocksOf(OutMsgs[p])[j])

\* cache_control was nested in the system field and in blocks of messages
\* of every role
C8_Witness ==
    /\ Translated /\ IsDict(Inbound) /\ Has(Inbound, "system")
    /\ HasCacheControl(Inbound.f["system"])
    /\ \A role \in {"assistant", "user", "system", "tool"} :
         \E n \in 1..Len(InMsgs) :
           /\ RoleOf(InMsgs[n]) = S(role)
           /\ HasCacheControl(ContentOf(InMsgs[n]))
           /\ \E p \in 1..Len(OutMsgs) :
                origin[p].src = n /\ IsList(ContentOf(OutMsgs[p]))

\* the field removal and the cache_control removal of process_request_body
StripFields(d) == RemoveSystemCacheControl(RemoveParams(d, BLOCKED_PARAMS))

\* C9: the removal of the denied fields together with the recursive removal
\* of cache_control, applied to its own result, changes nothing.
C9_StripIdempotent ==
    (pc = "messages") =>
      /\ StripFields(data) = data
      /\ remove_cache_control(remove_cache_control(Inbound))
           = remove_cache_control(Inbound)

C9_Witness ==
    /\ pc = "messages"
    /\ IsDict(Inbound) /\ Has(Inbound, "system") /\ HasCacheControl(Inbound.f["system"])
    /\ DOMAIN Inbound.f \cap DeniedFields # {}
    /\ data # Inbound

\* C10: every top-level field other than the seven denied ones, system and
\* messages is in the rewritten envelope with the value it came with.
C10_PassthroughKept ==
    (Translated /\ IsDict(Inbound)) =>
      \A key \in DOMAIN Inbound.f \ (DeniedFields \cup {"system", "messages"}) :
        /\ Has(data, key) /\ data.f[key] = Inbound.f[key]
        /\ request.sent =>
             /\ Has(request.body.value, key)
             /\ request.body.value.f[key] = Inbound.f[key]

C10_Witness ==
    /\ Translated /\ IsDict(Inbound)
    /\ {"model", "temperature", "tools", "system", "messages"} \subseteq DOMAIN Inbound.f
    /\ DOMAIN Inbound.f \cap DeniedFields # {}
    /\ HasCacheControl(data.f["tools"])
    /\ data # Inbound


(* Headers of the backend request *)

\* the request has been forwarded to the backend (POST, or GET not /health)
Forwarded == pc = "done" /\ request.sent

\* the header list hs has a header of this name (any case) with this value
Carries(hs, name, value) ==
    \E j \in 1..Len(hs) : Lower(hs[j][1]) = Lower(name) /\ hs[j][2] = value

DeniedHeaders == {"host", "content-length", "anthropic-beta"}

\* C11: no header named host, content-length or anthropic-beta (in any case)
\* is sent to the backend; every other inbound header is sent with its value
\* (the Content-Type of a POST is the one the proxy sets); a POST carries
\* Content-Type: application/json.
C11_HeadersForwarded ==
    Forwarded =>
      /\ \A j \in 1..Len(request.headers) :
           Lower(request.headers[j][1]) \notin DeniedHeaders
      /\ \A j \in 1..Len(headers) :
           \/ Lower(headers[j][1]) \in DeniedHeaders
           \/ method = "POST" /\ Lower(headers[j][1]) = "content-type"
           \/ Carries(request.headers, headers[j][1], headers[j][2])
      /\ method = "POST" =>
           Carries(request.headers, "Content-Type", "application/json")


(* Responses relayed from the backend *)

\* the outcome of urlopen: the last answer of the backend
Answer == backend.replies[Len(backend.replies)]

\* the response to the client is the backend's answer, relayed
Relayed ==
    /\ Forwarded
    /\ Answer.kind = "response"
    /\ method = "GET" => Answer.status \in 200..299

\* C12: a relayed backend response, on the POST path and on the forwarded-GET
\* path, has the backend's status code, has neither a transfer-encoding nor a
\* content-encoding header, and has a Content-Length header equal to the
\* length of the body sent to the client.
C12_RelayedResponse ==
    Relayed =>
      /\ response.status = Answer.status
      /\ response.body = Answer.body
      /\ ~HasHeader(response.headers, "transfer-encoding")
      /\ ~HasHeader(response.headers, "content-encoding")
      /\ HasHeader(response.headers, "content-length")
      /\ \A j \in 1..Len(response.headers) :
           Lower(response.headers[j][1]) = "content-length"
             => response.headers[j][2] = NumStr(BodyLen(response.body))

\* C12 on the POST path alone
C12_RelayedPost == method = "POST" => C12_RelayedResponse


(* Errors of a POST request *)

\* the response is status 500 with the JSON object {error: message}
IsErrorResponse ==
    /\ response.status = 500
    /\ response.body.kind = "json"
    /\ IsDict(response.body.value)
    /\ DOMAIN response.body.value.f = {"error"}
    /\ IsStr(response.body.value.f["error"])

\* the handler of a POST request has returned after an exception: in
\* parsing or rewriting (nothing was forwarded) or in forwarding (the
\* backend was unreachable)
PostFailed ==
    /\ pc = "done" /\ method = "POST"
    /\ ~request.sent \/ Answer.kind = "unreachable"

\* the backend's answer to the forwarded POST request has a status that is
\* in the set and not 2xx: the response is that status and body, and the
\* backend was called once
RejectionRelayed(statuses) ==
    (/\ pc = "done" /\ method = "POST" /\ request.sent
     /\ backend.replies[1].kind = "response"
     /\ backend.replies[1].status \in statuses \ (200..299))
      => /\ response.status = backend.replies[1].status
         /\ response.body = backend.replies[1].body
         /\ backend.calls = 1

\* C13: for a POST request, an unreachable backend or an exception in
\* parsing, rewriting or forwarding gives the caller status 500 with the
\* JSON body {error: message}; a non-2xx answer of the backend is relayed
\* with its status and body after one backend call; in all these cases the
\* handler returns and the server goes on to the next request.
C13_PostErrors ==
    /\ PostFailed => IsErrorResponse
    /\ RejectionRelayed(100..599)
    /\ method = "POST" => ENABLED Next
    /\ (pc = "done" /\ method = "POST") => ENABLED Return

\* C13 but for the statuses urlopen follows as redirects
C13_PostErrorsNoRedirect ==
    /\ PostFailed => IsErrorResponse
    /\ RejectionRelayed((100..599) \ Redirects("POST"))
    /\ method = "POST" => ENABLED Next
    /\ (pc = "done" /\ method = "POST") => ENABLED Return


(* Order of the output of clean_messages *)

\* the positions of cleaned that hold the output of input message n
OutputOf(n) == {p \in 1..Len(cleaned) : origin[p].src = n}

\* the tool_use_ids of the tool_result blocks of a message, in their order
ResultIds(m) ==
    LET results == SelectSeq(BlocksOf(m), LAMBDA b : IsType(b, "tool_result"))
    IN [j \in 1..Len(results) |-> Get(results[j], "tool_use_id", S(""))]

\* the blocks of a message that are not tool_result blocks
OtherBlocks(m) == SelectSeq(BlocksOf(m), LAMBDA b : ~IsType(b, "tool_result"))

\* the output of the user message n (list content) from position lo to
\* hi: the user message, kept with its other blocks or elided when it has
\* none, directly followed by tool messages alone, whose ids are ids of the
\* tool_result blocks of the message in the order of these blocks
UserOutputInOrder(n, lo, hi) ==
    LET kept == IF OtherBlocks(InMsgs[n]) # <<>> THEN 1 ELSE 0
        ids == [j \in 1..(hi - lo + 1 - kept) |->
                  Get(cleaned[lo + kept + j - 1], "tool_call_id", Null)]
    IN /\ hi - lo + 1 >= kept
       /\ kept = 1 =>
            /\ RoleOf(cleaned[lo]) = S("user")
            /\ ~Has(cleaned[lo], "tool_call_id")
            /\ Len(BlocksOf(cleaned[lo])) = Len(OtherBlocks(InMsgs[n]))
            /\ \A j \in 1..Len(BlocksOf(cleaned[lo])) :
                 ~IsType(BlocksOf(cleaned[lo])[j], "tool_result")
       /\ \A p \in (lo + kept)..hi : RoleOf(cleaned[p]) = S("tool")
       /\ ids = SelectSeq(ResultIds(InMsgs[n]),
                          LAMBDA x : \E j \in 1..Len(ids) : ids[j] = x)

\* C14: clean_messages keeps the order of the input: the outputs of the
\* input messages follow one another in the order of the input; a message
\* that is not a user message with list content has one output, in its
\* place and of its role; a user message is kept or elided in its place and
\* the tool messages converted from it come directly after that place, next
\* to one another, in the order of their tool_result blocks, before the
\* output of any later message.
C14_OrderPreserved ==
    (method = "POST" /\ pc \in {"clean", "forward"}) =>
      /\ Len(origin) = Len(cleaned)
      /\ \A p, q \in 1..Len(cleaned) : p < q => origin[p].src <= origin[q].src
      /\ \A p \in 1..Len(cleaned) : origin[p].src \in 1..i
      /\ \A n \in 1..i :
           IF Branch(InMsgs[n]) = "user"
           THEN OutputOf(n) = {}
                \/ \E lo, hi \in OutputOf(n) :
                     /\ OutputOf(n) = lo..hi
                     /\ UserOutputInOrder(n, lo, hi)
           ELSE \E p \in 1..Len(cleaned) :
                  /\ OutputOf(n) = {p}
                  /\ RoleOf(cleaned[p]) = RoleOf(InMsgs[n])
                  /\ ~IsDict(InMsgs[n]) => cleaned[p] = InMsgs[n]

\* an assistant message with calls, then a user message kept with two of
\* its tool_results converted after it, then the output of a later message
C14_Witness ==
    /\ method = "POST" /\ pc = "forward" /\ i = 3
    /\ Branch(InMsgs[2]) = "user"
    /\ \E lo \in OutputOf(2) :
         /\ RoleOf(cleaned[lo]) = S("user")
         /\ {lo + 1, lo + 2} \subseteq OutputOf(2)
         /\ cleaned[lo + 1].f["tool_call_id"] # cleaned[lo + 2].f["tool_call_id"]
    /\ OutputOf(3) # {}

\* a user message made of a tool_result alone: elided, its tool message in
\* its place before the output of the next message
C14_WitnessElided ==
    /\ method = "POST" /\ pc = "forward" /\ i = 3
    /\ Branch(InMsgs[2]) = "user"
    /\ \E p \in 1..Len(cleaned) :
         OutputOf(2) = {p} /\ RoleOf(cleaned[p]) = S("tool")
    /\ OutputOf(3) # {}


(* The translation applied to its own output *)

\* C15: process_request_body applied to the result of process_request_body
\* returns that result: the tool_calls, the tool messages and the image_url
\* blocks it made stay as they are and no message is dropped or added.
C15_Idempotent ==
    (Rewritten /\ IsDict(Inbound)) =>
      /\ data = process_request_body(Inbound)
      /\ process_request_body(data) = data

\* the translation changed the envelope: its output has an assistant
\* message with tool_calls, a converted tool message and an image_url block
C15_Witness ==
    /\ Rewritten /\ IsDict(Inbound)
    /\ data # Inbound
    /\ Len(OutMsgs) < Len(InMsgs) + Cardinality(Converted)
    /\ \E p \in 1..Len(OutMsgs) : CallIds(OutMsgs[p]) # {}
    /\ \E p \in Converted : OutMsgs[p] = cleaned[p]
    /\ \E p \in 1..Len(OutMsgs) :
         \E j \in 1..Len(BlocksOf(OutMsgs[p])) :
           IsType(BlocksOf(OutMsgs[p])[j], "image_url")

====
